---- MODULE Spec2Model ----
(***************************************************************************)
(* rmssd: the driver main() of rmssd.cpp, which calls calculateRMSSD<T>    *)
(* for six (floating point type, rounding) combinations over one data      *)
(* file, and the loader and the calculation it calls.                      *)
(*                                                                         *)
(* Numbers.  A floating point value is modelled as an integer count of     *)
(* 10^-FracDigits (decimal fixed point); a squared value as a count of     *)
(* 10^-(2*FracDigits).  The binary rounding error of float, double and     *)
(* long double is below this resolution and is not modelled; the type an   *)
(* operation is carried out in is recorded in the variable ops.            *)
(***************************************************************************)
EXTENDS Integers, Sequences, FiniteSets

\* Longest data file considered, in lines.
MaxLines == 4

\* Decimal digits of the fixed point resolution.
FracDigits == 4

RECURSIVE Pow10(_)
Pow10(n) == IF n <= 0 THEN 1 ELSE 10 * Pow10(n - 1)

\* One unit of the integer part, in counts.
Scale == Pow10(FracDigits)

\* n ten-thousandths, in counts.
Dec(n) == n * Pow10(FracDigits - 4)

\* The lines a data file is made of: four decimal values, one that is not a
\* number, and one below the range of float (but not of double).  No value
\* lies halfway between two multiples of 10^-3, where the binary rounding
\* error of T would decide the result of round().
Lines == {"0.1000", "0.1020", "0.1050", "0.1026", "abc", "1e-46"}

RECURSIVE SeqsUpTo(_, _)
SeqsUpTo(S, n) ==
    IF n = 0 THEN {<<>>}
    ELSE LET shorter == SeqsUpTo(S, n - 1)
         IN  shorter \cup {Append(s, x) : s \in {t \in shorter : Len(t) = n - 1}, x \in S}

\* What the path test/RRIntervals_P7D1_Baseline.txt holds: no file that can
\* be opened, or a sequence of lines.
NoFile == <<"(no file)">>
Files == {NoFile} \cup SeqsUpTo(Lines, MaxLines)

\* sizeof(long double) * 8 is the implementation's choice.
LongDoubleBits == {64, 96, 128}

\* The six calls of main, in program order: label printed, T, roundTo.
Combinations ==
    << [label |-> "float",                                     rep |-> "float",       roundTo |-> -1],
       [label |-> "double",                                    rep |-> "double",      roundTo |-> -1],
       [label |-> "long double",                               rep |-> "long double", roundTo |-> -1],
       [label |-> "float (rounded to 3 decimal places)",       rep |-> "float",       roundTo |-> 3],
       [label |-> "double (rounded to 3 decimal places)",      rep |-> "double",      roundTo |-> 3],
       [label |-> "long double (rounded to 3 decimal places)", rep |-> "long double", roundTo |-> 3] >>

VARIABLES
    file,        \* contents of the data file
    ldBits,      \* sizeof(long double) * 8 of the build
    pc,          \* position of the program
    c,           \* the combination main is at (index into Combinations)
    openHandles, \* number of open std::fstream handles on the data file
    pos,         \* loadIntervals: number of the next line getline reads
    intervals,   \* the vector intervals
    diffs,       \* calculateRMSSD: the vector diffs
    sum,         \* calculateRMSSD: sum
    mean,        \* calculateRMSSD: mean
    root,        \* calculateRMSSD: root, the value returned
    ops,         \* the operations of the current call, each with the type it ran in
    invoked,     \* the combinations whose calculateRMSSD call was entered
    exc,         \* the exception thrown, if any
    out,         \* lines written to std::cout
    err,         \* lines the program writes to std::cerr
    exit         \* how the process ended

vars == <<file, ldBits, pc, c, openHandles, pos, intervals, diffs, sum, mean,
          root, ops, invoked, exc, out, err, exit>>

\* The texts of the two InvalidArgument exceptions.
CouldNotOpenText == "could not open data file"
TooFewText == "too few RR intervals to calculate RMSSD"

NoExc == [type |-> "none", msg |-> "", c |-> 0]

Rep(k) == Combinations[k].rep
RoundToOf(k) == Combinations[k].roundTo

----------------------------------------------------------------------------
(* Pure functions of rmssd.cpp *)

\* std::stof / std::stod / std::stold on one line.
stringToFP(rep, numString) ==
    CASE numString = "0.1000" -> [ok |-> TRUE,  val |-> Dec(1000), exc |-> ""]
      [] numString = "0.1020" -> [ok |-> TRUE,  val |-> Dec(1020), exc |-> ""]
      [] numString = "0.1050" -> [ok |-> TRUE,  val |-> Dec(1050), exc |-> ""]
      [] numString = "0.1026" -> [ok |-> TRUE,  val |-> Dec(1026), exc |-> ""]
      [] numString = "1e-46"  ->
            IF rep = "float"
            THEN [ok |-> FALSE, val |-> 0, exc |-> "std::out_of_range"]
            ELSE [ok |-> TRUE,  val |-> 0, exc |-> ""]
      [] OTHER                -> [ok |-> FALSE, val |-> 0, exc |-> "std::invalid_argument"]

\* round(): to the nearest integer, halfway cases away from zero; n / d with d > 0.
RoundHalfAway(n, d) ==
    IF n >= 0 THEN (2 * n + d) \div (2 * d)
    ELSE -((2 * (-n) + d) \div (2 * d))

\* num = round(num * multiplier) / multiplier, when roundTo >= 0.
RoundValue(num, roundTo) ==
    IF roundTo >= 0
    THEN LET multiplier == Pow10(roundTo)
         IN  (RoundHalfAway(num * multiplier, Scale) * Scale) \div multiplier
    ELSE num

\* The types the operations of reading one line run in.
LoadOps(rep, roundTo) ==
    {[op |-> "stringToFP", rep |-> rep]}
    \cup (IF roundTo >= 0
          THEN {[op |-> "pow", rep |-> "double"],
                [op |-> "multiply", rep |-> rep],
                [op |-> "round", rep |-> rep],
                [op |-> "divide", rep |-> rep]}
          ELSE {})

\* sizeof(T) * 8
BitWidth(rep, ld) ==
    CASE rep = "float" -> 32
      [] rep = "double" -> 64
      [] OTHER -> ld

\* Mutant of TooFew: the check lets a single sample through.
TooFew_OffByOne(v) == Len(v) < 1

\* intervals.size() < 2
TooFew(v) == Len(v) < 2

\* Mutant of Differences: the predecessor minus the element.
RECURSIVE DiffLoop_Reversed(_, _, _, _)
DiffLoop_Reversed(v, it, prev, acc) ==
    IF it > Len(v) THEN acc
    ELSE DiffLoop_Reversed(v, it + 1, v[it],
                           IF it # 1 THEN Append(acc, prev - v[it]) ELSE acc)

Differences_Reversed(v) == DiffLoop_Reversed(v, 1, 0, <<>>)

\* The loop over intervals: each element but the first minus its predecessor.
RECURSIVE DiffLoop(_, _, _, _)
DiffLoop(v, it, prev, acc) ==
    IF it > Len(v) THEN acc
    ELSE DiffLoop(v, it + 1, v[it], IF it # 1 THEN Append(acc, v[it] - prev) ELSE acc)

Differences(v) == DiffLoop(v, 1, 0, <<>>)

\* diff *= diff, for each element.
SquareEach(d) == [i \in 1..Len(d) |-> d[i] * d[i]]

\* sum += diff, from the first element to the last, starting at 0.
RECURSIVE SumLoop(_, _, _)
SumLoop(d, i, acc) == IF i > Len(d) THEN acc ELSE SumLoop(d, i + 1, acc + d[i])

SumOf(d) == SumLoop(d, 1, 0)

\* sum / static_cast<T>(diffs.size())
MeanOf(s, n) == s \div n

\* sqrtf / sqrt / sqrtl: the root of a count of 10^-(2*FracDigits), in counts
\* of 10^-FracDigits (the largest r with r * r <= val, found by bisection).
RECURSIVE RootAbove(_, _)
RootAbove(val, h) == IF h * h > val THEN h ELSE RootAbove(val, 2 * h)

RECURSIVE RootBetween(_, _, _)
RootBetween(val, lo, hi) ==
    IF hi - lo <= 1 THEN lo
    ELSE LET mid == (lo + hi) \div 2
         IN  IF mid * mid <= val THEN RootBetween(val, mid, hi)
             ELSE RootBetween(val, lo, mid)

squareroot(val) == RootBetween(val, 0, RootAbove(val, 1))

\* catch (InvalidArgument &e): which exceptions the handler of main takes.
Handles(e) == e.type = "InvalidArgument"

\* Lines on std::cout.
OutLine(kind, k, v) == [k |-> kind, c |-> k, v |-> v]

\* Mutant of ResultLines: the blank line before the value.
ResultLines_BlankFirst(k, v) == <<OutLine("blank", k, 0), OutLine("value", k, v)>>

LabelLines(k) == <<OutLine("label", k, 0)>>
BitLines(k, ld) == <<OutLine("bits", k, BitWidth(Rep(k), ld))>>
ResultLines(k, v) == <<OutLine("value", k, v), OutLine("blank", k, 0)>>
PromptLines == <<OutLine("prompt", 0, 0)>>

----------------------------------------------------------------------------
Init ==
    /\ file \in Files
    /\ ldBits \in LongDoubleBits
    /\ pc = "label"
    /\ c = 1
    /\ openHandles = 0
    /\ pos = 1
    /\ intervals = <<>>
    /\ diffs = <<>>
    /\ sum = 0
    /\ mean = 0
    /\ root = 0
    /\ ops = {}
    /\ invoked = {}
    /\ exc = NoExc
    /\ out = <<>>
    /\ err = <<>>
    /\ exit = "running"

\* main: std::cout << "float" << std::endl; and the like, then the call.
PrintLabel ==
    /\ pc = "label"
    /\ out' = out \o LabelLines(c)
    /\ invoked' = invoked \cup {c}
    /\ pc' = "open"
    /\ UNCHANGED <<file, ldBits, c, openHandles, pos, intervals, diffs, sum, mean,
                   root, ops, exc, err, exit>>

\* loadIntervals: a new vector, infile.open, and the throw when it is not open.
OpenFile ==
    /\ pc = "open"
    /\ intervals' = <<>>
    /\ pos' = 1
    /\ IF file = NoFile
       THEN /\ exc' = [type |-> "InvalidArgument", msg |-> CouldNotOpenText, c |-> c]
            /\ pc' = "thrown"
            /\ UNCHANGED openHandles
       ELSE /\ openHandles' = openHandles + 1
            /\ pc' = "read"
            /\ UNCHANGED exc
    /\ UNCHANGED <<file, ldBits, c, diffs, sum, mean, root, ops, invoked, out, err, exit>>

\* Mutant of ReadLine: the value is put at the front of the vector.
ReadLine_Prepend ==
    /\ pc = "read"
    /\ pos <= Len(file)
    /\ LET parsed == stringToFP(Rep(c), file[pos])
       IN  IF parsed.ok
           THEN /\ intervals' = <<RoundValue(parsed.val, RoundToOf(c))>> \o intervals
                /\ ops' = ops \cup LoadOps(Rep(c), RoundToOf(c))
                /\ pos' = pos + 1
                /\ UNCHANGED <<pc, exc>>
           ELSE /\ exc' = [type |-> parsed.exc, msg |-> "", c |-> c]
                /\ pc' = "thrown"
                /\ UNCHANGED <<intervals, ops, pos>>
    /\ UNCHANGED <<file, ldBits, c, openHandles, diffs, sum, mean, root, invoked,
                   out, err, exit>>

\* loadIntervals: one turn of the getline loop.
ReadLine ==
    /\ pc = "read"
    /\ pos <= Len(file)
    /\ LET parsed == stringToFP(Rep(c), file[pos])
       IN  IF parsed.ok
           THEN /\ intervals' = Append(intervals, RoundValue(parsed.val, RoundToOf(c)))
                /\ ops' = ops \cup LoadOps(Rep(c), RoundToOf(c))
                /\ pos' = pos + 1
                /\ UNCHANGED <<pc, exc>>
           ELSE /\ exc' = [type |-> parsed.exc, msg |-> "", c |-> c]
                /\ pc' = "thrown"
                /\ UNCHANGED <<intervals, ops, pos>>
    /\ UNCHANGED <<file, ldBits, c, openHandles, diffs, sum, mean, root, invoked,
                   out, err, exit>>

\* loadIntervals: getline finds no further line; infile.close(); return.
CloseFile ==
    /\ pc = "read"
    /\ pos > Len(file)
    /\ openHandles' = openHandles - 1
    /\ pc' = "check"
    /\ UNCHANGED <<file, ldBits, c, pos, intervals, diffs, sum, mean, root, ops,
                   invoked, exc, out, err, exit>>

\* Mutant of SanityCheck: the bit width is written before the check.
SanityCheck_AfterDiagnostic ==
    /\ pc = "check"
    /\ out' = out \o BitLines(c, ldBits)
    /\ IF TooFew(intervals)
       THEN /\ exc' = [type |-> "InvalidArgument", msg |-> TooFewText, c |-> c]
            /\ pc' = "thrown"
       ELSE /\ pc' = "diffs"
            /\ UNCHANGED exc
    /\ UNCHANGED <<file, ldBits, c, openHandles, pos, intervals, diffs, sum, mean,
                   root, ops, invoked, err, exit>>

\* calculateRMSSD: the sanity check.
SanityCheck ==
    /\ pc = "check"
    /\ IF TooFew(intervals)
       THEN /\ exc' = [type |-> "InvalidArgument", msg |-> TooFewText, c |-> c]
            /\ pc' = "thrown"
       ELSE /\ pc' = "bits"
            /\ UNCHANGED exc
    /\ UNCHANGED <<file, ldBits, c, openHandles, pos, intervals, diffs, sum, mean,
                   root, ops, invoked, out, err, exit>>

\* calculateRMSSD: std::cout << (sizeof(T) * 8) << "-bit float".
PrintBitWidth ==
    /\ pc = "bits"
    /\ out' = out \o BitLines(c, ldBits)
    /\ pc' = "diffs"
    /\ UNCHANGED <<file, ldBits, c, openHandles, pos, intervals, diffs, sum, mean,
                   root, ops, invoked, exc, err, exit>>

\* calculateRMSSD, step 1.
ComputeDiffs ==
    /\ pc = "diffs"
    /\ diffs' = Differences(intervals)
    /\ ops' = ops \cup {[op |-> "subtract", rep |-> Rep(c)]}
    /\ pc' = "square"
    /\ UNCHANGED <<file, ldBits, c, openHandles, pos, intervals, sum, mean, root,
                   invoked, exc, out, err, exit>>

\* calculateRMSSD, step 2.
SquareDiffs ==
    /\ pc = "square"
    /\ diffs' = SquareEach(diffs)
    /\ ops' = ops \cup {[op |-> "square", rep |-> Rep(c)]}
    /\ pc' = "mean"
    /\ UNCHANGED <<file, ldBits, c, openHandles, pos, intervals, sum, mean, root,
                   invoked, exc, out, err, exit>>

\* calculateRMSSD, step 3.
ComputeMean ==
    /\ pc = "mean"
    /\ sum' = SumOf(diffs)
    /\ mean' = MeanOf(SumOf(diffs), Len(diffs))
    /\ ops' = ops \cup {[op |-> "add", rep |-> Rep(c)], [op |-> "mean", rep |-> Rep(c)]}
    /\ pc' = "root"
    /\ UNCHANGED <<file, ldBits, c, openHandles, pos, intervals, diffs, root,
                   invoked, exc, out, err, exit>>

\* calculateRMSSD, step 4, and the return.
ComputeRoot ==
    /\ pc = "root"
    /\ root' = squareroot(mean)
    /\ ops' = ops \cup {[op |-> "squareroot", rep |-> Rep(c)]}
    /\ pc' = "print"
    /\ UNCHANGED <<file, ldBits, c, openHandles, pos, intervals, diffs, sum, mean,
                   invoked, exc, out, err, exit>>

\* main: std::cout << (the value returned) << std::endl; std::cout << std::endl;
\* then the next statement of the try block, or the end of it.  The call has
\* returned: ops starts anew.
PrintResult ==
    /\ pc = "print"
    /\ out' = out \o ResultLines(c, root)
    /\ ops' = {}
    /\ IF c < Len(Combinations)
       THEN /\ c' = c + 1
            /\ pc' = "label"
       ELSE /\ pc' = "prompt"
            /\ UNCHANGED c
    /\ UNCHANGED <<file, ldBits, openHandles, pos, intervals, diffs, sum, mean,
                   root, invoked, exc, err, exit>>

\* Mutant of CatchInvalidArgument: a handler around each call, so that main
\* goes on with the next combination.
CatchAndContinue ==
    /\ pc = "thrown"
    /\ Handles(exc)
    /\ openHandles' = 0
    /\ err' = Append(err, [k |-> "ERROR", c |-> exc.c, msg |-> exc.msg])
    /\ IF c < Len(Combinations)
       THEN /\ c' = c + 1
            /\ pc' = "label"
       ELSE /\ pc' = "prompt"
            /\ UNCHANGED c
    /\ UNCHANGED <<file, ldBits, pos, intervals, diffs, sum, mean, root, ops,
                   invoked, exc, out, exit>>

\* main: the handler of the try block.  The stack is unwound to it, which
\* destroys infile.
CatchInvalidArgument ==
    /\ pc = "thrown"
    /\ Handles(exc)
    /\ openHandles' = 0
    /\ err' = Append(err, [k |-> "ERROR", c |-> exc.c, msg |-> exc.msg])
    /\ pc' = "prompt"
    /\ UNCHANGED <<file, ldBits, c, pos, intervals, diffs, sum, mean, root, ops,
                   invoked, exc, out, exit>>

\* No handler takes the exception: std::terminate.  Whether the stack is
\* unwound (and infile destroyed) before it is the implementation's choice.
Terminate ==
    /\ pc = "thrown"
    /\ ~Handles(exc)
    /\ \E unwound \in BOOLEAN :
          openHandles' = IF unwound THEN 0 ELSE openHandles
    /\ pc' = "done"
    /\ exit' = "SIGABRT"
    /\ UNCHANGED <<file, ldBits, c, pos, intervals, diffs, sum, mean, root, ops,
                   invoked, exc, out, err>>

\* main: std::cout << "Press <enter> to exit".
PrintPrompt ==
    /\ pc = "prompt"
    /\ out' = out \o PromptLines
    /\ pc' = "wait"
    /\ UNCHANGED <<file, ldBits, c, openHandles, pos, intervals, diffs, sum, mean,
                   root, ops, invoked, exc, err, exit>>

\* main: std::cin.get() returns; return EXIT_SUCCESS.
Exit ==
    /\ pc = "wait"
    /\ pc' = "done"
    /\ exit' = "EXIT_SUCCESS"
    /\ UNCHANGED <<file, ldBits, c, openHandles, pos, intervals, diffs, sum, mean,
                   root, ops, invoked, exc, out, err>>

Next ==
    \/ PrintLabel
    \/ OpenFile
    \/ ReadLine
    \/ CloseFile
    \/ SanityCheck
    \/ PrintBitWidth
    \/ ComputeDiffs
    \/ SquareDiffs
    \/ ComputeMean
    \/ ComputeRoot
    \/ PrintResult
    \/ CatchInvalidArgument
    \/ Terminate
    \/ PrintPrompt
    \/ Exit

Spec == Init /\ [][Next]_vars

----------------------------------------------------------------------------
(* Vocabulary of the properties *)

ParseErrors == {"std::invalid_argument", "std::out_of_range"}

\* The lines combination k wrote to std::cout.
OutOf(k) == SelectSeq(out, LAMBDA l : l.c = k)

HasLine(kind, k) == \E i \in 1..Len(out) : out[i].k = kind /\ out[i].c = k
ErrorReported(k) == \E i \in 1..Len(err) : err[i].c = k

\* Combination k ended with its result on std::cout or its error on std::cerr.
Reported(k) == HasLine("value", k) \/ ErrorReported(k)

\* loadIntervals has returned a vector to the current call of calculateRMSSD.
LoadReturned ==
    /\ pc \notin {"label", "open", "read"}
    /\ exc.type \notin ParseErrors
    /\ exc.msg # CouldNotOpenText

Abs(n) == IF n < 0 THEN -n ELSE n

----------------------------------------------------------------------------
C2_MalformedSampleReported ==
    (pc = "done" /\ exc.type \in ParseErrors)
        => /\ ErrorReported(exc.c)
           /\ \A j \in 1..Len(Combinations) : j \in invoked

\* C3: once the loader has returned and the check has run, the call has
\* failed with "too few RR intervals" exactly when the vector has fewer than
\* 2 elements, and a call that failed so printed no result.
C3_InsufficientSamples ==
    (LoadReturned /\ pc # "check") =>
        /\ (Len(intervals) < 2) <=> (exc.msg = TooFewText)
        /\ exc.msg = TooFewText =>
              /\ exc.type = "InvalidArgument"
              /\ ~HasLine("value", exc.c)

C3_Witness ==
    /\ pc = "thrown"
    /\ exc.msg = TooFewText
    /\ Len(file) = 1
    /\ Len(intervals) = 1

\* C4 (as claimed): whatever the data file, the process ends by returning
\* EXIT_SUCCESS from main.
C4_ExitsSuccessfully == pc = "done" => exit = "EXIT_SUCCESS"

\* C5: std::cout holds the combinations in program order, one finished
\* before the next starts: a label is first or follows the blank line of the
\* combination before it, the bit width follows its label, the result the
\* bit width, the blank line the result; and the combinations invoked so far
\* are exactly those up to the current one.
C5_OutputInProgramOrder ==
    /\ \A i \in 1..Len(out) :
          LET l == out[i] IN
          CASE l.k = "label" ->
                  \/ i = 1 /\ l.c = 1
                  \/ i > 1 /\ out[i - 1].k = "blank" /\ out[i - 1].c = l.c - 1
            [] l.k = "bits"  -> i > 1 /\ out[i - 1].k = "label" /\ out[i - 1].c = l.c
            [] l.k = "value" -> i > 1 /\ out[i - 1].k = "bits"  /\ out[i - 1].c = l.c
            [] l.k = "blank" -> i > 1 /\ out[i - 1].k = "value" /\ out[i - 1].c = l.c
            [] OTHER         -> l.k = "prompt" /\ i = Len(out)
    /\ invoked = 1..(IF pc = "label" THEN c - 1 ELSE c)

C5_Witness ==
    /\ pc = "done"
    /\ exit = "EXIT_SUCCESS"
    /\ Len(out) = 4 * Len(Combinations) + 1
    /\ out[9].k = "label" /\ out[9].c = 3
    /\ out[10].k = "bits" /\ out[10].v = ldBits

\* The sum of the squared successive differences of v from index i on.
RECURSIVE SquaresFrom(_, _)
SquaresFrom(v, i) ==
    IF i >= Len(v) THEN 0
    ELSE (v[i + 1] - v[i]) * (v[i + 1] - v[i]) + SquaresFrom(v, i + 1)

\* C6: n samples give n-1 differences, difference i being sample i+1 minus
\* sample i; each is squared in place; the sum is the sum of the squares and
\* the mean the sum divided by n-1; the root is taken of the mean.
C6_Algorithm ==
    LET n == Len(intervals) IN
    /\ pc \in {"square", "mean", "root", "print"} => n >= 2 /\ Len(diffs) = n - 1
    /\ pc = "square" =>
          \A i \in 1..(n - 1) : diffs[i] = intervals[i + 1] - intervals[i]
    /\ pc \in {"mean", "root", "print"} =>
          \A i \in 1..(n - 1) :
             diffs[i] = (intervals[i + 1] - intervals[i]) * (intervals[i + 1] - intervals[i])
    /\ pc \in {"root", "print"} =>
          /\ sum = SquaresFrom(intervals, 1)
          /\ mean * (n - 1) <= sum
          /\ sum < (mean + 1) * (n - 1)
    /\ pc = "print" =>
          /\ root >= 0
          /\ root * root <= mean
          /\ mean < (root + 1) * (root + 1)

\* The scenario of the specification, in ten-thousandths.
C6_Witness ==
    /\ pc = "print"
    /\ Rep(c) = "double" /\ RoundToOf(c) = -1
    /\ intervals = <<1000, 1020, 1000, 1050>>
    /\ diffs = <<400, 400, 2500>>
    /\ sum = 3300
    /\ mean = 1100
    /\ root = 33

\* C7 (as claimed): every operation of a call runs in the type T of the call.
C7_SingleRepresentation == \A o \in ops : o.rep = Rep(c)

\* C8 (as claimed): the handle is open only while loadIntervals runs (or its
\* exception is in flight), and never twice.
C8_HandleReleased ==
    /\ openHandles <= 1
    /\ pc \notin {"read", "thrown"} => openHandles = 0

\* C9: the vector holds one element per line read, in line order; element k
\* is the value of line k, or with a rounding policy the multiple of
\* 10^-roundTo nearest to it.
C9_OneSamplePerLineInOrder ==
    pc \in {"read", "thrown", "check", "bits", "diffs", "square", "mean", "root", "print"}
        /\ exc.msg \notin {CouldNotOpenText} =>
        /\ Len(intervals) = (IF pc \in {"read", "thrown"} /\ exc.msg # TooFewText
                             THEN pos - 1 ELSE Len(file))
        /\ \A k \in 1..Len(intervals) :
              LET parsed == stringToFP(Rep(c), file[k])
                  grain  == Scale \div Pow10(RoundToOf(c))
                  d      == intervals[k] - parsed.val
              IN  /\ parsed.ok
                  /\ IF RoundToOf(c) >= 0
                     THEN /\ intervals[k] % grain = 0
                          /\ 2 * Abs(d) < grain
                     ELSE d = 0

C9_Witness ==
    /\ pc = "check"
    /\ RoundToOf(c) = 3
    /\ file = <<"0.1026", "0.1000", "0.1020">>
    /\ intervals = <<1030, 1000, 1020>>

\* C10: the bit width (and the result) of the current combination is on
\* std::cout only when its load returned and its check passed; a combination
\* that failed wrote its label and nothing else.
C10_NoDiagnosticOnFailure ==
    /\ (HasLine("bits", c) \/ HasLine("value", c)) =>
          /\ pc \in {"diffs", "square", "mean", "root", "print", "prompt", "wait", "done"}
          /\ exc = NoExc
          /\ Len(intervals) >= 2
          /\ openHandles = 0
    /\ exc # NoExc => OutOf(exc.c) = LabelLines(exc.c)

C10_Witness ==
    /\ pc = "done"
    /\ exc.type = "std::invalid_argument"
    /\ pos = 3
    /\ out = LabelLines(1)

====
